---- MODULE Spec2Model ----
(***************************************************************************)
(* ContentStudio, python/core/chapter_generator.py:                        *)
(*   TranscriptChunker  chunk_from_srt_segments, _split_sentences,         *)
(*                      _srt_time_to_seconds, _seconds_to_youtube_time,    *)
(*                      create_segments                                    *)
(*   ChapterMapper      __init__, map_chapters, _validate_youtube_chapters,*)
(*                      _youtube_time_to_seconds                           *)
(*                                                                         *)
(* A Python str is a sequence of one-character strings, so that split,     *)
(* strip, join, int() and the f-string formats are computed character by   *)
(* character.  A float number of seconds is an integer number of           *)
(* milliseconds; the millisecond parts used are 000 and 500, which are     *)
(* exact in binary floating point, so the integer arithmetic agrees with   *)
(* the program's.                                                          *)
(***************************************************************************)
EXTENDS Integers, Sequences, FiniteSets, TLC

VARIABLES
    pc,                          \* position of the running call
    items,                       \* ChapterMapper.items
    item_map,                    \* ChapterMapper.item_map
    ai_chapters,                 \* argument of map_chapters
    mapped_chapters,             \* map_chapters: mapped_chapters (aliased by `chapters`)
    valid_chapters,              \* _validate_youtube_chapters: valid_chapters
    result,                      \* value returned by map_chapters
    target_duration,             \* TranscriptChunker.target_duration
    srt_segments,                \* argument of chunk_from_srt_segments
    seg_idx,                     \* number of srt_segments the for loop has consumed
    chunks,                      \* chunk_from_srt_segments: chunks
    current_chunk_text,          \* list of str
    current_chunk_start,         \* str or None
    current_chunk_start_seconds, \* float, in milliseconds
    chunk_id,                    \* next chunk id
    chunks_per_segment,          \* argument of create_segments
    segments,                    \* value returned by create_segments
    previous_chunks              \* list of the chunk lists fed back as spans

mapper_vars == <<items, item_map, ai_chapters, mapped_chapters, valid_chapters, result>>

chunker_vars == <<target_duration, srt_segments, seg_idx, chunks, current_chunk_text,
                  current_chunk_start, current_chunk_start_seconds, chunk_id>>

segmenter_vars == <<chunks_per_segment, segments>>

vars == <<pc, mapper_vars, chunker_vars, segmenter_vars, previous_chunks>>

----------------------------------------------------------------------------
(* Python str and int primitives *)

Digits == <<"0", "1", "2", "3", "4", "5", "6", "7", "8", "9">>

DigitSet == {Digits[i] : i \in 1..10}

DigitVal(c) == (CHOOSE i \in 1..10 : Digits[i] = c) - 1

Whitespace == {" ", "\t", "\n", "\r"}

None == <<"None">>

\* str.split(sep) for a one-character sep
RECURSIVE split(_, _)
split(s, sep) ==
    IF \A i \in 1..Len(s) : s[i] # sep THEN <<s>>
    ELSE LET k == CHOOSE i \in 1..Len(s) :
                      s[i] = sep /\ \A j \in 1..(i - 1) : s[j] # sep
         IN <<SubSeq(s, 1, k - 1)>> \o split(SubSeq(s, k + 1, Len(s)), sep)

\* str.strip()
RECURSIVE strip(_)
strip(s) ==
    IF s = <<>> THEN s
    ELSE IF s[1] \in Whitespace THEN strip(Tail(s))
    ELSE IF s[Len(s)] \in Whitespace THEN strip(SubSeq(s, 1, Len(s) - 1))
    ELSE s

\* sep.join(list)
RECURSIVE join(_, _)
join(list, sep) ==
    IF list = <<>> THEN <<>>
    ELSE IF Len(list) = 1 THEN list[1]
    ELSE list[1] \o sep \o join(Tail(list), sep)

\* int(s) raises ValueError: over the characters used here (digits, ":", ",",
\* "x") int accepts exactly the non-empty digit strings
int_raises(s) == s = <<>> \/ \E i \in 1..Len(s) : s[i] \notin DigitSet

RECURSIVE int(_)
int(s) ==
    IF s = <<>> THEN 0
    ELSE 10 * int(SubSeq(s, 1, Len(s) - 1)) + DigitVal(s[Len(s)])

\* f"{n}"
RECURSIVE fmt_d(_)
fmt_d(n) ==
    IF n < 10 THEN <<Digits[n + 1]>>
    ELSE fmt_d(n \div 10) \o <<Digits[(n % 10) + 1]>>

\* f"{n:02d}"
fmt_02d(n) == IF n < 10 THEN <<"0">> \o fmt_d(n) ELSE fmt_d(n)

----------------------------------------------------------------------------
(* TranscriptChunker: pure functions *)

Upper ==
    {"A", "B", "C", "D", "E", "F", "G", "H", "I", "J", "K", "L", "M",
     "N", "O", "P", "Q", "R", "S", "T", "U", "V", "W", "X", "Y", "Z"}

SentenceEnd == {".", "!", "?"}

\* last position of the run of whitespace that starts at position i
RECURSIVE run_end(_, _)
run_end(text, i) ==
    IF i < Len(text) /\ text[i + 1] \in Whitespace THEN run_end(text, i + 1) ELSE i

\* re.split(r'(?<=[.!?])\s+(?=[A-Z])', text)
RECURSIVE re_split(_)
re_split(text) ==
    LET starts == {i \in 2..Len(text) :
                      /\ text[i - 1] \in SentenceEnd
                      /\ text[i] \in Whitespace
                      /\ run_end(text, i) < Len(text)
                      /\ text[run_end(text, i) + 1] \in Upper}
    IN IF starts = {} THEN <<text>>
       ELSE LET i == CHOOSE k \in starts : \A m \in starts : k <= m
            IN <<SubSeq(text, 1, i - 1)>>
                 \o re_split(SubSeq(text, run_end(text, i) + 1, Len(text)))

\* [s.strip() for s in sentences if s.strip()]
RECURSIVE strip_nonempty(_)
strip_nonempty(list) ==
    IF list = <<>> THEN <<>>
    ELSE IF strip(Head(list)) = <<>> THEN strip_nonempty(Tail(list))
    ELSE <<strip(Head(list))>> \o strip_nonempty(Tail(list))

split_sentences(text) == strip_nonempty(re_split(text))

\* the call raises ValueError (a failed unpacking or a failed int)
srt_time_raises(srt_time) ==
    LET halves == split(srt_time, ",")
    IN IF Len(halves) # 2 THEN TRUE
       ELSE LET fields == split(halves[1], ":")
            IN IF Len(fields) # 3 THEN TRUE
               ELSE IF \E i \in 1..3 : int_raises(fields[i]) THEN TRUE
               ELSE int_raises(halves[2])

\* in milliseconds
srt_time_to_seconds(srt_time) ==
    LET halves == split(srt_time, ",")
        fields == split(halves[1], ":")
    IN (int(fields[1]) * 3600 + int(fields[2]) * 60 + int(fields[3])) * 1000
         + int(halves[2])

\* seconds_to_youtube_time that rounds to the nearest second
seconds_to_youtube_time_rounds(seconds) ==
    LET hours   == (seconds + 500) \div 3600000
        minutes == ((seconds + 500) % 3600000) \div 60000
        secs    == ((seconds + 500) % 60000) \div 1000
    IN IF hours > 0
       THEN fmt_d(hours) \o <<":">> \o fmt_02d(minutes) \o <<":">> \o fmt_02d(secs)
       ELSE fmt_d(minutes) \o <<":">> \o fmt_02d(secs)

\* seconds_to_youtube_time with the minutes of the hours form not padded
seconds_to_youtube_time_unpadded(seconds) ==
    LET hours   == seconds \div 3600000
        minutes == (seconds % 3600000) \div 60000
        secs    == (seconds % 60000) \div 1000
    IN IF hours > 0
       THEN fmt_d(hours) \o <<":">> \o fmt_d(minutes) \o <<":">> \o fmt_02d(secs)
       ELSE fmt_d(minutes) \o <<":">> \o fmt_02d(secs)

\* seconds in milliseconds; int() of a non-negative float truncates
seconds_to_youtube_time(seconds) ==
    LET hours   == seconds \div 3600000
        minutes == (seconds % 3600000) \div 60000
        secs    == (seconds % 60000) \div 1000
    IN IF hours > 0
       THEN fmt_d(hours) \o <<":">> \o fmt_02d(minutes) \o <<":">> \o fmt_02d(secs)
       ELSE fmt_d(minutes) \o <<":">> \o fmt_02d(secs)

TranscriptChunk(id, time, text, start_seconds) ==
    [id |-> id, time |-> time, text |-> text, start_seconds |-> start_seconds]

TranscriptSegment(id, time, topic, chunk_ids, start_seconds) ==
    [id |-> id, time |-> time, topic |-> topic, chunk_ids |-> chunk_ids,
     start_seconds |-> start_seconds]

\* default of the parameter chunks_per_segment
DefaultChunksPerSegment == 4

\* chunks[i:i + chunks_per_segment], i counted from 0
slice(chunk_list, i, k) ==
    SubSeq(chunk_list, i + 1, IF i + k < Len(chunk_list) THEN i + k ELSE Len(chunk_list))

\* segments_from with time and start_seconds taken from the last chunk of the
\* slice
RECURSIVE segments_from_last_time(_, _, _, _)
segments_from_last_time(chunk_list, k, i, segs) ==
    IF i >= Len(chunk_list) THEN segs
    ELSE LET segment_chunks == slice(chunk_list, i, k)
         IN segments_from_last_time(chunk_list, k, i + k,
                Append(segs,
                    TranscriptSegment(Len(segs) + 1,
                        segment_chunks[Len(segment_chunks)].time, <<>>,
                        [j \in 1..Len(segment_chunks) |-> segment_chunks[j].id],
                        segment_chunks[Len(segment_chunks)].start_seconds)))

\* segments_from with the slice one chunk too long
RECURSIVE segments_from_overlap(_, _, _, _)
segments_from_overlap(chunk_list, k, i, segs) ==
    IF i >= Len(chunk_list) THEN segs
    ELSE LET segment_chunks == slice(chunk_list, i, k + 1)
         IN segments_from_overlap(chunk_list, k, i + k,
                Append(segs,
                    TranscriptSegment(Len(segs) + 1, segment_chunks[1].time, <<>>,
                        [j \in 1..Len(segment_chunks) |-> segment_chunks[j].id],
                        segment_chunks[1].start_seconds)))

\* the loop `for i in range(0, len(chunks), chunks_per_segment)`, from i on,
\* for a positive chunks_per_segment
RECURSIVE segments_from(_, _, _, _)
segments_from(chunk_list, k, i, segs) ==
    IF i >= Len(chunk_list) THEN segs
    ELSE LET segment_chunks == slice(chunk_list, i, k)
         IN segments_from(chunk_list, k, i + k,
                Append(segs,
                    TranscriptSegment(Len(segs) + 1, segment_chunks[1].time, <<>>,
                        [j \in 1..Len(segment_chunks) |-> segment_chunks[j].id],
                        segment_chunks[1].start_seconds)))

create_segments(chunk_list, k) == segments_from(chunk_list, k, 0, <<>>)

----------------------------------------------------------------------------
(* ChapterMapper *)

\* the call raises ValueError
youtube_time_raises(time_str) ==
    LET parts == split(time_str, ":")
    IN IF Len(parts) = 3 THEN \E i \in 1..3 : int_raises(parts[i])
       ELSE IF Len(parts) = 2 THEN \E i \in 1..2 : int_raises(parts[i])
       ELSE int_raises(parts[1])

youtube_time_to_seconds(time_str) ==
    LET parts == split(time_str, ":")
    IN IF Len(parts) = 3
       THEN int(parts[1]) * 3600 + int(parts[2]) * 60 + int(parts[3])
       ELSE IF Len(parts) = 2
       THEN int(parts[1]) * 60 + int(parts[2])
       ELSE int(parts[1])

\* {item.id: item for item in items}: a later item replaces an earlier one
\* of the same id
build_item_map(its) ==
    [id \in {its[i].id : i \in 1..Len(its)} |->
        its[CHOOSE i \in 1..Len(its) :
                its[i].id = id /\ \A j \in (i + 1)..Len(its) : its[j].id # id]]

\* map_loop with `break` in place of `continue` at an id the index lacks
RECURSIVE map_loop_break(_, _, _)
map_loop_break(imap, cands, i) ==
    IF i >= Len(cands) THEN <<>>
    ELSE LET chapter == cands[i + 1]
             item_id == IF chapter.chunk_id # 0 THEN chapter.chunk_id
                        ELSE chapter.segment_id
             title   == strip(chapter.title)
             rest    == map_loop_break(imap, cands, i + 1)
         IN IF item_id = 0 \/ title = <<>> THEN rest
            ELSE IF item_id \notin DOMAIN imap THEN <<>>
            ELSE <<[timestamp |-> imap[item_id].time,
                    title     |-> title,
                    sequence  |-> i]>> \o rest

\* map_loop that keeps the title as the candidate gave it
RECURSIVE map_loop_untrimmed(_, _, _)
map_loop_untrimmed(imap, cands, i) ==
    IF i >= Len(cands) THEN <<>>
    ELSE LET chapter == cands[i + 1]
             item_id == IF chapter.chunk_id # 0 THEN chapter.chunk_id
                        ELSE chapter.segment_id
             title   == strip(chapter.title)
             rest    == map_loop_untrimmed(imap, cands, i + 1)
         IN IF item_id = 0 \/ title = <<>> THEN rest
            ELSE IF item_id \notin DOMAIN imap THEN rest
            ELSE <<[timestamp |-> imap[item_id].time,
                    title     |-> chapter.title,
                    sequence  |-> i]>> \o rest

\* the for loop of map_chapters over enumerate(ai_chapters), from index i on
RECURSIVE map_loop(_, _, _)
map_loop(imap, cands, i) ==
    IF i >= Len(cands) THEN <<>>
    ELSE LET chapter == cands[i + 1]
             item_id == IF chapter.chunk_id # 0 THEN chapter.chunk_id
                        ELSE chapter.segment_id
             title   == strip(chapter.title)
             rest    == map_loop(imap, cands, i + 1)
         IN IF item_id = 0 \/ title = <<>> THEN rest
            ELSE IF item_id \notin DOMAIN imap THEN rest
            ELSE <<[timestamp |-> imap[item_id].time,
                    title     |-> title,
                    sequence  |-> i]>> \o rest

\* list.sort(key=...) raises when the key function raises on any element
sort_raises(chs) == \E i \in 1..Len(chs) : youtube_time_raises(chs[i].timestamp)

\* sort_by_timestamp with the sort left out
sort_by_timestamp_off(chs) == chs

\* sort_by_timestamp that puts a chapter before those of the same key
RECURSIVE sort_by_timestamp_unstable(_)
sort_by_timestamp_unstable(chs) ==
    IF chs = <<>> THEN <<>>
    ELSE LET sorted == sort_by_timestamp_unstable(SubSeq(chs, 1, Len(chs) - 1))
             x      == chs[Len(chs)]
             k      == youtube_time_to_seconds(x.timestamp)
             n      == Cardinality({i \in 1..Len(sorted) :
                           youtube_time_to_seconds(sorted[i].timestamp) < k})
         IN SubSeq(sorted, 1, n) \o <<x>> \o SubSeq(sorted, n + 1, Len(sorted))

\* list.sort(key=...): stable, ascending by key
RECURSIVE sort_by_timestamp(_)
sort_by_timestamp(chs) ==
    IF chs = <<>> THEN <<>>
    ELSE LET sorted == sort_by_timestamp(SubSeq(chs, 1, Len(chs) - 1))
             x      == chs[Len(chs)]
             k      == youtube_time_to_seconds(x.timestamp)
             n      == Cardinality({i \in 1..Len(sorted) :
                           youtube_time_to_seconds(sorted[i].timestamp) <= k})
         IN SubSeq(sorted, 1, n) \o <<x>> \o SubSeq(sorted, n + 1, Len(sorted))

\* for i, chapter in enumerate(chapters): chapter['sequence'] = i
renumber(chs) == [i \in 1..Len(chs) |-> [chs[i] EXCEPT !.sequence = i - 1]]

sort_and_renumber(chs) == renumber(sort_by_timestamp(chs))

ZeroTimestamp == <<"0", ":", "0", "0">>

IntroTitle == <<"I", "n", "t", "r", "o", "d", "u", "c", "t", "i", "o", "n">>

MinChapterSeconds == 10

MinChapters == 3

\* zero_anchor that inserts whatever the first timestamp is
zero_anchor_always(chs) ==
    renumber(<<[timestamp |-> ZeroTimestamp,
                title     |-> IntroTitle,
                sequence  |-> 0]>> \o chs)

\* "Ensure first chapter starts at 0:00", on a non-empty list
zero_anchor(chs) ==
    IF chs[1].timestamp # ZeroTimestamp
    THEN renumber(<<[timestamp |-> ZeroTimestamp,
                     title     |-> IntroTitle,
                     sequence  |-> 0]>> \o chs)
    ELSE chs

\* min_duration_from that also drops a chapter exactly MinChapterSeconds
\* before its successor
RECURSIVE min_duration_from_inclusive(_, _)
min_duration_from_inclusive(chs, i) ==
    IF i > Len(chs) THEN <<>>
    ELSE LET rest == min_duration_from_inclusive(chs, i + 1)
         IN IF i < Len(chs)
               /\ youtube_time_to_seconds(chs[i + 1].timestamp)
                    - youtube_time_to_seconds(chs[i].timestamp) <= MinChapterSeconds
            THEN rest
            ELSE <<chs[i]>> \o rest

\* "Check minimum length requirement", from 1-based position i on
RECURSIVE min_duration_from(_, _)
min_duration_from(chs, i) ==
    IF i > Len(chs) THEN <<>>
    ELSE LET rest == min_duration_from(chs, i + 1)
         IN IF i < Len(chs)
               /\ youtube_time_to_seconds(chs[i + 1].timestamp)
                    - youtube_time_to_seconds(chs[i].timestamp) < MinChapterSeconds
            THEN rest
            ELSE <<chs[i]>> \o rest

min_duration(chs) == min_duration_from(chs, 1)

\* min_count with the floor one too low
min_count_two(valid) == IF Len(valid) < MinChapters - 1 THEN <<>> ELSE valid

\* "Ensure we have at least 3 chapters"
min_count(valid) == IF Len(valid) < MinChapters THEN <<>> ELSE valid

validate_youtube_chapters(chs) ==
    IF chs = <<>> THEN <<>>
    ELSE min_count(min_duration(zero_anchor(chs)))

\* the whole of map_chapters on a mapper built from index its: the returned
\* list, or Raised when the call raises
Raised == <<"ValueError">>

map_chapters(its, cands) ==
    LET mapped == map_loop(build_item_map(its), cands, 0)
    IN IF sort_raises(mapped) THEN Raised
       ELSE validate_youtube_chapters(sort_and_renumber(mapped))

----------------------------------------------------------------------------
(* Inputs of the mapper *)

MaxCandidates == 3

Item(id, time) == [id |-> id, time |-> time]

\* as emitted by the chunker for a transcript that starts at zero
IndexChunks ==
    <<Item(1, <<"0", ":", "0", "0">>), Item(2, <<"0", ":", "3", "0">>),
      Item(3, <<"1", ":", "0", "0">>), Item(4, <<"1", ":", "0", "5">>)>>

\* as emitted by the chunker for a transcript whose first span starts at 5 s
IndexLate ==
    <<Item(1, <<"0", ":", "0", "5">>), Item(2, <<"0", ":", "3", "0">>),
      Item(3, <<"0", ":", "3", "5">>), Item(4, <<"1", ":", "0", "0", ":", "0", "0">>)>>

\* hand-built items: out of order, zero written with three fields, one field
IndexOdd ==
    <<Item(1, <<"1", ":", "0", "0">>), Item(2, <<"0", ":", "0", "0", ":", "0", "0">>),
      Item(3, <<"4", "5">>), Item(4, <<"0", ":", "3", "0">>)>>

\* hand-built items: a field that is no integer, four fields
IndexBad ==
    <<Item(1, <<"0", ":", "0", "0">>), Item(2, <<"x", ":", "3", "0">>),
      Item(3, <<"1", ":", "0", "2", ":", "0", "3", ":", "0", "4">>),
      Item(4, <<"0", ":", "1", "5">>)>>

\* two items of the same id
IndexDup ==
    <<Item(1, <<"0", ":", "0", "0">>), Item(2, <<"0", ":", "1", "0">>),
      Item(2, <<"0", ":", "2", "0">>), Item(3, <<"0", ":", "4", "0">>)>>

\* items exactly MinChapterSeconds apart, and one second less
IndexTen ==
    <<Item(1, <<"0", ":", "0", "0">>), Item(2, <<"0", ":", "1", "0">>),
      Item(3, <<"0", ":", "1", "9">>), Item(4, <<"0", ":", "2", "9">>)>>

IndexChoices ==
    {<<>>, IndexChunks, IndexLate, IndexOdd, IndexBad, IndexDup, IndexTen}

\* a dict of the labeling step; an absent key, None and 0 are all falsy and
\* are written 0
Candidate(chunk, segment, title) ==
    [chunk_id |-> chunk, segment_id |-> segment, title |-> title]

CandidateChoices ==
    {Candidate(1, 0, <<"A">>), Candidate(2, 0, <<"B">>),
     Candidate(3, 0, <<" ", "C", " ">>), Candidate(4, 0, <<"D">>),
     Candidate(0, 2, <<"E">>), Candidate(9, 0, <<"G">>),
     Candidate(3, 0, <<" ">>), Candidate(0, 0, <<"H">>)}

CandidateLists ==
    UNION {[1..n -> CandidateChoices] : n \in 0..MaxCandidates}

----------------------------------------------------------------------------
(* map_chapters, step by step *)

\* create_segments has not been called; its parameter has its default
SegmenterIdle ==
    /\ chunks_per_segment = DefaultChunksPerSegment
    /\ segments = <<>>

\* no chunk list has been fed back to the chunker
NotFedBack == previous_chunks = <<>>

ChunkerIdle ==
    /\ target_duration = 0
    /\ srt_segments = <<>>
    /\ seg_idx = 0
    /\ chunks = <<>>
    /\ current_chunk_text = <<>>
    /\ current_chunk_start = None
    /\ current_chunk_start_seconds = 0
    /\ chunk_id = 1
    /\ SegmenterIdle
    /\ NotFedBack

\* ChapterMapper(items), then map_chapters(ai_chapters) is entered
InitMap ==
    /\ pc = "map"
    /\ items \in IndexChoices
    /\ item_map = build_item_map(items)
    /\ ai_chapters \in CandidateLists
    /\ mapped_chapters = <<>>
    /\ valid_chapters = <<>>
    /\ result = <<>>
    /\ ChunkerIdle

\* MapLoop that strips the titles in the candidate records themselves
MapLoopStripsInPlace ==
    /\ pc = "map"
    /\ mapped_chapters' = map_loop(item_map, ai_chapters, 0)
    /\ ai_chapters' = [i \in 1..Len(ai_chapters) |->
                          [ai_chapters[i] EXCEPT !.title = strip(@)]]
    /\ pc' = "mapped"
    /\ UNCHANGED <<items, item_map, valid_chapters, result,
                   chunker_vars, segmenter_vars, previous_chunks>>

MapLoop ==
    /\ pc = "map"
    /\ mapped_chapters' = map_loop(item_map, ai_chapters, 0)
    /\ pc' = "mapped"
    /\ UNCHANGED <<items, item_map, ai_chapters, valid_chapters, result,
                   chunker_vars, segmenter_vars, previous_chunks>>

SortChapters ==
    /\ pc = "mapped"
    /\ ~sort_raises(mapped_chapters)
    /\ mapped_chapters' = sort_and_renumber(mapped_chapters)
    /\ pc' = "sorted"
    /\ UNCHANGED <<items, item_map, ai_chapters, valid_chapters, result,
                   chunker_vars, segmenter_vars, previous_chunks>>

SortRaises ==
    /\ pc = "mapped"
    /\ sort_raises(mapped_chapters)
    /\ result' = Raised
    /\ pc' = "raised"
    /\ UNCHANGED <<items, item_map, ai_chapters, mapped_chapters, valid_chapters,
                   chunker_vars, segmenter_vars, previous_chunks>>

\* ValidateEmpty without the `if not chapters` guard: chapters[0] raises
ValidateEmptyRaises ==
    /\ pc = "sorted"
    /\ mapped_chapters = <<>>
    /\ result' = <<"IndexError">>
    /\ pc' = "raised"
    /\ UNCHANGED <<items, item_map, ai_chapters, mapped_chapters, valid_chapters,
                   chunker_vars, segmenter_vars, previous_chunks>>

ValidateEmpty ==
    /\ pc = "sorted"
    /\ mapped_chapters = <<>>
    /\ result' = <<>>
    /\ pc' = "done"
    /\ UNCHANGED <<items, item_map, ai_chapters, mapped_chapters, valid_chapters,
                   chunker_vars, segmenter_vars, previous_chunks>>

ZeroAnchor ==
    /\ pc = "sorted"
    /\ mapped_chapters # <<>>
    /\ mapped_chapters' = zero_anchor(mapped_chapters)
    /\ pc' = "anchored"
    /\ UNCHANGED <<items, item_map, ai_chapters, valid_chapters, result,
                   chunker_vars, segmenter_vars, previous_chunks>>

MinDuration ==
    /\ pc = "anchored"
    /\ valid_chapters' = min_duration(mapped_chapters)
    /\ pc' = "filtered"
    /\ UNCHANGED <<items, item_map, ai_chapters, mapped_chapters, result,
                   chunker_vars, segmenter_vars, previous_chunks>>

MinCount ==
    /\ pc = "filtered"
    /\ result' = min_count(valid_chapters)
    /\ pc' = "done"
    /\ UNCHANGED <<items, item_map, ai_chapters, mapped_chapters, valid_chapters,
                   chunker_vars, segmenter_vars, previous_chunks>>

NextMap ==
    \/ MapLoop
    \/ SortChapters
    \/ SortRaises
    \/ ValidateEmpty
    \/ ZeroAnchor
    \/ MinDuration
    \/ MinCount

SpecMap == InitMap /\ [][NextMap]_vars

----------------------------------------------------------------------------
(* Inputs of the chunker *)

MaxSpans == 3

\* f"{n:03d}"
fmt_03d(n) == IF n < 100 THEN <<"0">> \o fmt_02d(n) ELSE fmt_d(n)

\* the tests' _seconds_to_srt_time, on milliseconds
seconds_to_srt_time(seconds) ==
    fmt_02d(seconds \div 3600000) \o <<":">>
      \o fmt_02d((seconds % 3600000) \div 60000) \o <<":">>
      \o fmt_02d((seconds % 60000) \div 1000) \o <<",">>
      \o fmt_03d(seconds % 1000)

\* the fields of SRTSegment that chunk_from_srt_segments reads
SRTSegment(start_time, text) == [start_time |-> start_time, text |-> text]

SpanChoices ==
    {SRTSegment(seconds_to_srt_time(0), <<"H", "i", ".">>),
     SRTSegment(seconds_to_srt_time(5500), <<"w", "e", " ", "g", "o">>),
     SRTSegment(seconds_to_srt_time(10000), <<>>),
     SRTSegment(seconds_to_srt_time(30000), <<" ">>),
     SRTSegment(seconds_to_srt_time(30000), <<"S", "o", ".", " ", "O", "k">>),
     SRTSegment(seconds_to_srt_time(40500), <<"Y", "e", "s">>),
     SRTSegment(seconds_to_srt_time(65000), <<"e", "n", "d", ".">>),
     SRTSegment(seconds_to_srt_time(3610000), <<"F", "a", "r">>),
     SRTSegment(<<"0", "0", ":", "0", "0", ":", "3", "0">>, <<"b", "a", "d">>)}

SpanLists == UNION {[1..n -> SpanChoices] : n \in 0..MaxSpans}

\* longer lists, of well-formed spans in non-decreasing order of start_time
MaxSortedSpans == 4

WellFormedSpans == {sp \in SpanChoices : ~srt_time_raises(sp.start_time)}

RECURSIVE sorted_span_lists(_, _)
sorted_span_lists(n, from) ==
    IF n = 0 THEN {<<>>}
    ELSE {<<>>} \cup
         UNION {{<<sp>> \o rest :
                    rest \in sorted_span_lists(n - 1, srt_time_to_seconds(sp.start_time))} :
                sp \in {w \in WellFormedSpans : srt_time_to_seconds(w.start_time) >= from}}

SortedSpanLists == sorted_span_lists(MaxSortedSpans, 0)

\* target_duration: the default of 30 and a shorter one
TargetDurations == {10, 30}

----------------------------------------------------------------------------
(* chunk_from_srt_segments, one loop iteration per step *)

MapperIdle ==
    /\ items = <<>>
    /\ item_map = build_item_map(<<>>)
    /\ ai_chapters = <<>>
    /\ mapped_chapters = <<>>
    /\ valid_chapters = <<>>
    /\ result = <<>>

\* TranscriptChunker(target_duration), then chunk_from_srt_segments(srt_segments)
\* is entered
InitChunk ==
    /\ pc = "chunk"
    /\ target_duration \in TargetDurations
    /\ srt_segments \in SpanLists \cup SortedSpanLists
    /\ seg_idx = 0
    /\ chunks = <<>>
    /\ current_chunk_text = <<>>
    /\ current_chunk_start = None
    /\ current_chunk_start_seconds = 0
    /\ chunk_id = 1
    /\ SegmenterIdle
    /\ NotFedBack
    /\ MapperIdle

\* the loop variable and the locals of one iteration
segment == srt_segments[seg_idx + 1]

start_seconds == srt_time_to_seconds(segment.start_time)

\* after "Initialize first chunk"
chunk_start == 
    IF current_chunk_start = None THEN seconds_to_youtube_time(start_seconds)
    ELSE current_chunk_start

chunk_start_seconds ==
    IF current_chunk_start = None THEN start_seconds ELSE current_chunk_start_seconds

\* after "Add text to current chunk"
chunk_text == Append(current_chunk_text, strip(segment.text))

elapsed == start_seconds - chunk_start_seconds

full_text == join(chunk_text, <<" ">>)

sentences == split_sentences(full_text)

InLoop ==
    /\ pc = "chunk"
    /\ seg_idx < Len(srt_segments)

ChunkEmpty ==
    /\ pc = "chunk"
    /\ srt_segments = <<>>
    /\ pc' = "chunked"
    /\ UNCHANGED <<mapper_vars, chunker_vars, segmenter_vars, previous_chunks>>

SegmentRaises ==
    /\ InLoop
    /\ srt_time_raises(segment.start_time)
    /\ pc' = "chunk_raised"
    /\ UNCHANGED <<mapper_vars, chunker_vars, segmenter_vars, previous_chunks>>

\* SegmentAccumulate that also goes on buffering when the elapsed time is
\* exactly the target
SegmentAccumulateAtTarget ==
    /\ InLoop
    /\ ~srt_time_raises(segment.start_time)
    /\ ~(elapsed > target_duration * 1000)
    /\ current_chunk_text' = chunk_text
    /\ current_chunk_start' = chunk_start
    /\ current_chunk_start_seconds' = chunk_start_seconds
    /\ seg_idx' = seg_idx + 1
    /\ UNCHANGED <<pc, mapper_vars, target_duration, srt_segments, chunks, chunk_id,
                   segmenter_vars, previous_chunks>>

SegmentAccumulate ==
    /\ InLoop
    /\ ~srt_time_raises(segment.start_time)
    /\ ~(elapsed >= target_duration * 1000)
    /\ current_chunk_text' = chunk_text
    /\ current_chunk_start' = chunk_start
    /\ current_chunk_start_seconds' = chunk_start_seconds
    /\ seg_idx' = seg_idx + 1
    /\ UNCHANGED <<pc, mapper_vars, target_duration, srt_segments, chunks, chunk_id,
                   segmenter_vars, previous_chunks>>

\* SegmentCarryOver that stamps the closed chunk with the start of the span
\* that closes it
SegmentCarryOverTriggerStart ==
    /\ InLoop
    /\ ~srt_time_raises(segment.start_time)
    /\ elapsed >= target_duration * 1000
    /\ Len(sentences) > 1
    /\ chunks' = Append(chunks,
                    TranscriptChunk(chunk_id, seconds_to_youtube_time(start_seconds),
                        join(SubSeq(sentences, 1, Len(sentences) - 1), <<" ">>),
                        start_seconds))
    /\ chunk_id' = chunk_id + 1
    /\ current_chunk_text' = <<sentences[Len(sentences)]>>
    /\ current_chunk_start' = seconds_to_youtube_time(start_seconds)
    /\ current_chunk_start_seconds' = start_seconds
    /\ seg_idx' = seg_idx + 1
    /\ UNCHANGED <<pc, mapper_vars, target_duration, srt_segments, segmenter_vars,
                   previous_chunks>>

\* SegmentCarryOver that closes the chunk with the whole buffered text and
\* still carries the last sentence over
SegmentCarryOverWholeText ==
    /\ InLoop
    /\ ~srt_time_raises(segment.start_time)
    /\ elapsed >= target_duration * 1000
    /\ Len(sentences) > 1
    /\ chunks' = Append(chunks,
                    TranscriptChunk(chunk_id, chunk_start, full_text,
                        chunk_start_seconds))
    /\ chunk_id' = chunk_id + 1
    /\ current_chunk_text' = <<sentences[Len(sentences)]>>
    /\ current_chunk_start' = seconds_to_youtube_time(start_seconds)
    /\ current_chunk_start_seconds' = start_seconds
    /\ seg_idx' = seg_idx + 1
    /\ UNCHANGED <<pc, mapper_vars, target_duration, srt_segments, segmenter_vars,
                   previous_chunks>>

SegmentCarryOver ==
    /\ InLoop
    /\ ~srt_time_raises(segment.start_time)
    /\ elapsed >= target_duration * 1000
    /\ Len(sentences) > 1
    /\ chunks' = Append(chunks,
                    TranscriptChunk(chunk_id, chunk_start,
                        join(SubSeq(sentences, 1, Len(sentences) - 1), <<" ">>),
                        chunk_start_seconds))
    /\ chunk_id' = chunk_id + 1
    /\ current_chunk_text' = <<sentences[Len(sentences)]>>
    /\ current_chunk_start' = seconds_to_youtube_time(start_seconds)
    /\ current_chunk_start_seconds' = start_seconds
    /\ seg_idx' = seg_idx + 1
    /\ UNCHANGED <<pc, mapper_vars, target_duration, srt_segments, segmenter_vars,
                   previous_chunks>>

\* SegmentSplitHere that closes the chunk before the text of the triggering
\* span and starts the next chunk with it
SegmentSplitHereBefore ==
    /\ InLoop
    /\ ~srt_time_raises(segment.start_time)
    /\ elapsed >= target_duration * 1000
    /\ ~(Len(sentences) > 1)
    /\ chunks' = Append(chunks,
                    TranscriptChunk(chunk_id, chunk_start,
                        join(current_chunk_text, <<" ">>), chunk_start_seconds))
    /\ chunk_id' = chunk_id + 1
    /\ current_chunk_text' = <<strip(segment.text)>>
    /\ current_chunk_start' = seconds_to_youtube_time(start_seconds)
    /\ current_chunk_start_seconds' = start_seconds
    /\ seg_idx' = seg_idx + 1
    /\ UNCHANGED <<pc, mapper_vars, target_duration, srt_segments, segmenter_vars,
                   previous_chunks>>

\* SegmentSplitHere with the next chunk's start taken from the wrong local
SegmentSplitHereWrongStart ==
    /\ InLoop
    /\ ~srt_time_raises(segment.start_time)
    /\ elapsed >= target_duration * 1000
    /\ ~(Len(sentences) > 1)
    /\ chunks' = Append(chunks,
                    TranscriptChunk(chunk_id, chunk_start, full_text,
                        chunk_start_seconds))
    /\ chunk_id' = chunk_id + 1
    /\ current_chunk_text' = <<>>
    /\ current_chunk_start' = seconds_to_youtube_time(start_seconds)
    /\ current_chunk_start_seconds' = elapsed
    /\ seg_idx' = seg_idx + 1
    /\ UNCHANGED <<pc, mapper_vars, target_duration, srt_segments, segmenter_vars,
                   previous_chunks>>

SegmentSplitHere ==
    /\ InLoop
    /\ ~srt_time_raises(segment.start_time)
    /\ elapsed >= target_duration * 1000
    /\ ~(Len(sentences) > 1)
    /\ chunks' = Append(chunks,
                    TranscriptChunk(chunk_id, chunk_start, full_text,
                        chunk_start_seconds))
    /\ chunk_id' = chunk_id + 1
    /\ current_chunk_text' = <<>>
    /\ current_chunk_start' = seconds_to_youtube_time(start_seconds)
    /\ current_chunk_start_seconds' = start_seconds
    /\ seg_idx' = seg_idx + 1
    /\ UNCHANGED <<pc, mapper_vars, target_duration, srt_segments, segmenter_vars,
                   previous_chunks>>

\* FinalChunk without the flush of the remaining text
FinalChunkNoFlush ==
    /\ pc = "chunk"
    /\ srt_segments # <<>>
    /\ seg_idx = Len(srt_segments)
    /\ pc' = "chunked"
    /\ UNCHANGED <<mapper_vars, chunker_vars, segmenter_vars, previous_chunks>>

\* "Add final chunk if there's remaining text", and return
FinalChunk ==
    /\ pc = "chunk"
    /\ srt_segments # <<>>
    /\ seg_idx = Len(srt_segments)
    /\ chunks' = IF current_chunk_text # <<>>
                 THEN Append(chunks,
                         TranscriptChunk(chunk_id, current_chunk_start,
                             join(current_chunk_text, <<" ">>),
                             current_chunk_start_seconds))
                 ELSE chunks
    /\ pc' = "chunked"
    /\ UNCHANGED <<mapper_vars, target_duration, srt_segments, seg_idx,
                   current_chunk_text, current_chunk_start,
                   current_chunk_start_seconds, chunk_id, segmenter_vars, previous_chunks>>

NextChunk ==
    \/ ChunkEmpty
    \/ SegmentRaises
    \/ SegmentAccumulate
    \/ SegmentCarryOver
    \/ SegmentSplitHere
    \/ FinalChunk

SpecChunk == InitChunk /\ [][NextChunk]_vars

----------------------------------------------------------------------------
(* Re-segmentation: the chunks a call returned go back in as spans *)

\* a chunk as a span that starts at the chunk's start_seconds and carries its
\* text
chunk_as_span(chunk) ==
    SRTSegment(seconds_to_srt_time(chunk.start_seconds), chunk.text)

\* Resegment with the display time of the chunk as the start_time of the span
ResegmentDisplayTime ==
    /\ pc = "chunked"
    /\ NotFedBack
    /\ previous_chunks' = <<chunks>>
    /\ srt_segments' = [j \in 1..Len(chunks) |-> SRTSegment(chunks[j].time, chunks[j].text)]
    /\ seg_idx' = 0
    /\ chunks' = <<>>
    /\ current_chunk_text' = <<>>
    /\ current_chunk_start' = None
    /\ current_chunk_start_seconds' = 0
    /\ chunk_id' = 1
    /\ pc' = "chunk"
    /\ UNCHANGED <<mapper_vars, target_duration, segmenter_vars>>

\* chunk_from_srt_segments is entered again, on the same chunker, with the
\* chunks it returned
Resegment ==
    /\ pc = "chunked"
    /\ NotFedBack
    /\ previous_chunks' = <<chunks>>
    /\ srt_segments' = [j \in 1..Len(chunks) |-> chunk_as_span(chunks[j])]
    /\ seg_idx' = 0
    /\ chunks' = <<>>
    /\ current_chunk_text' = <<>>
    /\ current_chunk_start' = None
    /\ current_chunk_start_seconds' = 0
    /\ chunk_id' = 1
    /\ pc' = "chunk"
    /\ UNCHANGED <<mapper_vars, target_duration, segmenter_vars>>

NextResegment == NextChunk \/ Resegment

SpecResegment == InitChunk /\ [][NextResegment]_vars

----------------------------------------------------------------------------
(* create_segments *)

MaxGivenChunks == 6

MaxChunksPerSegment == 5

\* spacing of the chunks of a given list: 30 seconds, 30 minutes
GivenSteps == {30000, 1800000}

\* a chunk list as chunk_from_srt_segments returns them: ids 1..n, time the
\* display form of start_seconds
given_chunks(n, step) ==
    [i \in 1..n |->
        TranscriptChunk(i, seconds_to_youtube_time((i - 1) * step), <<"t">>,
                        (i - 1) * step)]

GivenChunkLists ==
    {given_chunks(n, step) : n \in 0..MaxGivenChunks, step \in GivenSteps}

\* create_segments is about to be called on a chunk list held by the caller
InitSegments ==
    /\ pc = "segment"
    /\ chunks \in GivenChunkLists
    /\ target_duration = 0
    /\ srt_segments = <<>>
    /\ seg_idx = 0
    /\ current_chunk_text = <<>>
    /\ current_chunk_start = None
    /\ current_chunk_start_seconds = 0
    /\ chunk_id = Len(chunks) + 1
    /\ SegmenterIdle
    /\ NotFedBack
    /\ MapperIdle

\* create_segments(chunks, chunks_per_segment), on a given list or on the list
\* chunk_from_srt_segments returned
CreateSegments ==
    /\ pc \in {"segment", "chunked"}
    /\ \E k \in 1..MaxChunksPerSegment :
          /\ chunks_per_segment' = k
          /\ segments' = create_segments(chunks, k)
    /\ pc' = "segmented"
    /\ UNCHANGED <<mapper_vars, chunker_vars, previous_chunks>>

----------------------------------------------------------------------------
(* The time conversions on every zero-millisecond timestamp: a one-span call *)

MaxHours == 2

TimeHours == (0..MaxHours) \cup {12, 100}

ZeroMsTimes ==
    {seconds_to_srt_time((h * 3600 + m * 60 + s) * 1000) :
        h \in TimeHours, m \in 0..59, s \in 0..59}

InitTime ==
    /\ pc = "chunk"
    /\ target_duration = 30
    /\ \E t \in ZeroMsTimes : srt_segments = <<SRTSegment(t, <<"x">>)>>
    /\ seg_idx = 0
    /\ chunks = <<>>
    /\ current_chunk_text = <<>>
    /\ current_chunk_start = None
    /\ current_chunk_start_seconds = 0
    /\ chunk_id = 1
    /\ SegmenterIdle
    /\ NotFedBack
    /\ MapperIdle

NextTime == SegmentAccumulate \/ FinalChunk

SpecTime == InitTime /\ [][NextTime]_vars

----------------------------------------------------------------------------
(* _seconds_to_youtube_time on seconds with a fraction: a one-span call.  No *)
(* difference of two such numbers is taken here, so any millisecond part    *)
(* behaves in the program as it does in integer milliseconds.               *)

MaxTruncSeconds == 70

TruncSeconds == (0..MaxTruncSeconds) \cup {3599, 3600, 3661, 36000}

TruncMillis == {0, 1, 500, 999}

FractionTimes ==
    {seconds_to_srt_time(s * 1000 + ms) : s \in TruncSeconds, ms \in TruncMillis}

InitTrunc ==
    /\ pc = "chunk"
    /\ target_duration = 30
    /\ \E t \in FractionTimes : srt_segments = <<SRTSegment(t, <<"x">>)>>
    /\ seg_idx = 0
    /\ chunks = <<>>
    /\ current_chunk_text = <<>>
    /\ current_chunk_start = None
    /\ current_chunk_start_seconds = 0
    /\ chunk_id = 1
    /\ SegmenterIdle
    /\ NotFedBack
    /\ MapperIdle

SpecTrunc == InitTrunc /\ [][NextTime]_vars

----------------------------------------------------------------------------
(* End to end: the chunks, or the segments built from them, become the index *)
(* of a ChapterMapper                                                        *)

\* the fields of a chunk or a segment that ChapterMapper reads
index_of(list) == [j \in 1..Len(list) |-> Item(list[j].id, list[j].time)]

\* up to MaxCandidates pairwise different ids out of ids, in any order
DistinctIdLists(ids) ==
    {l \in UNION {[1..n -> ids] : n \in 0..MaxCandidates} :
        \A i, j \in 1..Len(l) : l[i] = l[j] => i = j}

\* a title for the candidate that references id
TitleLetters == <<"A", "B", "C", "D", "E", "F", "G", "H", "I", "J">>

title_for(id) == <<TitleLetters[((id - 1) % Len(TitleLetters)) + 1]>>

\* ChapterMapper(chunks) or ChapterMapper(segments), then map_chapters on
\* candidates that reference pairwise different ids of the index; the locals
\* of the calls that have returned are gone
BuildMapper ==
    /\ pc \in {"chunked", "segmented"}
    /\ LET index == IF pc = "chunked" THEN index_of(chunks) ELSE index_of(segments)
       IN /\ items' = index
          /\ item_map' = build_item_map(index)
          /\ \E ids \in DistinctIdLists({index[j].id : j \in 1..Len(index)}) :
                ai_chapters' =
                    [i \in 1..Len(ids) |->
                        IF pc = "chunked"
                        THEN Candidate(ids[i], 0, title_for(ids[i]))
                        ELSE Candidate(0, ids[i], title_for(ids[i]))]
    /\ mapped_chapters' = <<>>
    /\ valid_chapters' = <<>>
    /\ result' = <<>>
    /\ srt_segments' = <<>>
    /\ seg_idx' = 0
    /\ chunks' = <<>>
    /\ current_chunk_text' = <<>>
    /\ current_chunk_start' = None
    /\ current_chunk_start_seconds' = 0
    /\ chunk_id' = 1
    /\ chunks_per_segment' = DefaultChunksPerSegment
    /\ segments' = <<>>
    /\ pc' = "map"
    /\ UNCHANGED <<target_duration, previous_chunks>>

NextEndToEnd ==
    \/ NextChunk
    \/ CreateSegments
    \/ BuildMapper
    \/ MapLoop
    \/ SortChapters
    \/ ValidateEmpty
    \/ ZeroAnchor
    \/ MinDuration
    \/ MinCount

SpecEndToEnd == InitChunk /\ [][NextEndToEnd]_vars

----------------------------------------------------------------------------
(* Any call *)

Init == InitMap \/ InitChunk \/ InitSegments

Next == NextMap \/ NextChunk \/ CreateSegments

Spec == Init /\ [][Next]_vars

----------------------------------------------------------------------------
(* Claims *)

MapperPcs == {"map", "mapped", "sorted", "anchored", "filtered", "done", "raised"}

ChunkerPcs == {"chunk", "chunked", "chunk_raised"}

seconds_of(chapter) == youtube_time_to_seconds(chapter.timestamp)

\* the candidates that survive the unknown-identifier / empty-title filtering
survivors == map_loop(item_map, ai_chapters, 0)

\* C1: whenever map_chapters returns a non-empty list, the first entry's
\* timestamp is equivalent to zero seconds.
C1_FirstEntryIsZero ==
    pc = "done" /\ result # <<>> => seconds_of(result[1]) = 0

\* C2: in every list returned by map_chapters, each chapter's sequence equals
\* its 0-based index in the returned list.
C2_SequenceIsIndex ==
    pc = "done" => \A i \in 1..Len(result) : result[i].sequence = i - 1

\* C3: the list returned by map_chapters has length 0 or at least 3, never
\* 1 or 2.
C3_EmptyOrAtLeastThree ==
    pc = "done" => Len(result) = 0 \/ Len(result) >= 3

\* one or two chapters were left by the minimum-duration step
C3_Witness ==
    pc = "done" /\ Len(valid_chapters) \in {1, 2} /\ result = <<>>

\* C4, as claimed: if fewer than 3 candidates survive the filtering,
\* map_chapters returns an empty list.
C4_FewSurvivorsEmpty ==
    pc = "done" /\ Len(survivors) < 3 => result = <<>>

\* C4, amended: if at most 1 candidate survives, map_chapters returns an empty
\* list; if exactly 2 survive, it returns an empty list or the 3 chapters made
\* of the synthesized zero chapter followed by the two survivors in order of
\* time.
C4_FewSurvivorsEmptyOrAnchored ==
    pc = "done" /\ Len(survivors) < 3 =>
        \/ result = <<>>
        \/ /\ Len(survivors) = 2
           /\ result = renumber(<<[timestamp |-> ZeroTimestamp,
                                   title     |-> IntroTitle,
                                   sequence  |-> 0]>>
                                  \o sort_by_timestamp(survivors))

\* a single survivor, anchored to two chapters, gives the empty list
C4_Witness ==
    pc = "done" /\ Len(survivors) = 1 /\ Len(valid_chapters) = 2 /\ result = <<>>

\* C5: in every list returned by map_chapters the entries are strictly
\* increasing in seconds, and every entry but the last lies at least 10
\* seconds before the entry that follows it.
C5_IncreasingByMinDuration ==
    pc = "done" =>
        \A i \in 1..(Len(result) - 1) :
            /\ seconds_of(result[i]) < seconds_of(result[i + 1])
            /\ seconds_of(result[i + 1]) - seconds_of(result[i]) >= 10

\* candidates given out of order, a chapter dropped, a list returned
C5_Witness ==
    /\ pc = "done"
    /\ Len(result) >= 3
    /\ Len(valid_chapters) < Len(mapped_chapters)
    /\ survivors # sort_by_timestamp(survivors)

\* a candidate that the filtering drops
dropped(imap, chapter) ==
    LET item_id == IF chapter.chunk_id # 0 THEN chapter.chunk_id
                   ELSE chapter.segment_id
    IN item_id \notin DOMAIN imap \/ strip(chapter.title) = <<>>

RECURSIVE without_dropped(_, _)
without_dropped(imap, cands) ==
    IF cands = <<>> THEN <<>>
    ELSE IF dropped(imap, Head(cands)) THEN without_dropped(imap, Tail(cands))
    ELSE <<Head(cands)>> \o without_dropped(imap, Tail(cands))

\* C6: candidates whose identifier is absent from the index, or whose title is
\* empty after trimming, are dropped without an error and without affecting
\* the rest: the outcome of map_chapters on the candidate list is its outcome
\* on the list with those candidates removed.
C6_DroppedCandidatesNoEffect ==
    pc \in {"done", "raised"} =>
        result = map_chapters(items, without_dropped(item_map, ai_chapters))

\* a candidate was dropped and a list was returned
C6_Witness ==
    /\ pc = "done"
    /\ Len(result) >= 3
    /\ without_dropped(item_map, ai_chapters) # ai_chapters

C8_ChunkIdsContiguous ==
    pc = "chunked" /\ srt_segments # <<>> =>
        /\ Len(chunks) >= 1
        /\ \A i \in 1..Len(chunks) : chunks[i].id = i

\* two chunks were closed in the loop and a third came from the final flush
C8_Witness ==
    pc = "chunked" /\ Len(chunks) = 3 /\ current_chunk_text # <<>>

\* the spans are well formed and in non-decreasing start_time order
SpansSorted ==
    /\ \A i \in 1..Len(srt_segments) : ~srt_time_raises(srt_segments[i].start_time)
    /\ \A i \in 1..(Len(srt_segments) - 1) :
           srt_time_to_seconds(srt_segments[i].start_time)
             <= srt_time_to_seconds(srt_segments[i + 1].start_time)

\* C9: for every span sequence in non-decreasing start_time order, the
\* start_seconds of the emitted chunks is non-decreasing.
C9_ChunkStartsNonDecreasing ==
    pc \in ChunkerPcs /\ SpansSorted =>
        \A i \in 1..(Len(chunks) - 1) :
            chunks[i].start_seconds <= chunks[i + 1].start_seconds

C9_Witness ==
    /\ pc = "chunked"
    /\ SpansSorted
    /\ Len(chunks) = 3
    /\ chunks[1].start_seconds > 0
    /\ chunks[2].start_seconds < chunks[3].start_seconds

\* C10: empty input is not an error: chunk_from_srt_segments on an empty span
\* list returns an empty chunk list, and map_chapters on an empty candidate
\* list returns an empty chapter list, with no synthesized zero chapter and
\* no exception.
C10_EmptyInEmptyOut ==
    /\ pc \in ChunkerPcs /\ srt_segments = <<>> =>
           pc # "chunk_raised" /\ chunks = <<>>
    /\ pc \in MapperPcs /\ ai_chapters = <<>> =>
           /\ pc \notin {"raised", "anchored", "filtered"}
           /\ mapped_chapters = <<>>
           /\ result = <<>>

\* map_chapters has returned for an empty candidate list and a non-empty index
C10_Witness ==
    pc = "done" /\ ai_chapters = <<>> /\ items # <<>>

\* the orders in which a list of n candidates can be handed over
Perms(n) == {p \in [1..n -> 1..n] : \A i, j \in 1..n : p[i] = p[j] => i = j}

permuted(cands, p) == [i \in 1..Len(cands) |-> cands[p[i]]]

\* what a returned chapter list shows: its timestamps and titles, in order
shown(chs) ==
    IF chs = Raised THEN Raised
    ELSE [i \in 1..Len(chs) |-> <<chs[i].timestamp, chs[i].title>>]

same_for_any_order ==
    \A p \in Perms(Len(ai_chapters)) :
        shown(map_chapters(items, permuted(ai_chapters, p))) = shown(result)

distinct_seconds(chs) ==
    \A i, j \in 1..Len(chs) : seconds_of(chs[i]) = seconds_of(chs[j]) => i = j

\* C11 as stated: whatever the order in which the same candidates are handed
\* over, map_chapters gives the same outcome, the same timestamps and titles
\* in the same order, also when several candidates resolve to the same
\* timestamp.
C11_AnyOrderSameChapters ==
    pc \in {"done", "raised"} => same_for_any_order

\* C11, amended: the order of the candidates does not matter when the call
\* fails or when the surviving candidates resolve to pairwise different times.
C11_AnyOrderSameChaptersDistinctTimes ==
    pc \in {"done", "raised"}
        /\ (IF sort_raises(survivors) THEN TRUE ELSE distinct_seconds(survivors))
    => same_for_any_order

\* three survivors at different times, handed over out of time order, and
\* chapters are returned
C11_Witness ==
    /\ pc = "done"
    /\ result # <<>>
    /\ Len(survivors) = 3
    /\ distinct_seconds(survivors)
    /\ seconds_of(survivors[1]) > seconds_of(survivors[2])

\* a field of digits without its leading zeros
RECURSIVE unpadded(_)
unpadded(field) ==
    IF Len(field) > 1 /\ Head(field) = "0" THEN unpadded(Tail(field)) ELSE field

\* hh:mm:ss,000 with minutes and seconds below 60
zero_ms(srt_time) ==
    IF srt_time_raises(srt_time) THEN FALSE
    ELSE LET halves == split(srt_time, ",")
             fields == split(halves[1], ":")
         IN /\ halves[2] = <<"0", "0", "0">>
            /\ \A i \in 1..3 : Len(fields[i]) >= 2
            /\ int(fields[2]) < 60
            /\ int(fields[3]) < 60

\* C12: for a zero-millisecond timestamp hh:mm:ss,000 with minutes and seconds
\* below 60, the display form of its seconds is h:mm:ss with the hours not
\* padded when the hours are positive and m:ss with the minutes not padded
\* otherwise, and it denotes the same number of seconds.
C12_RoundTrip ==
    pc = "chunked" /\ Len(srt_segments) = 1 /\ zero_ms(srt_segments[1].start_time)
        /\ Len(chunks) = 1
    => LET t      == srt_segments[1].start_time
           fields == split(split(t, ",")[1], ":")
       IN /\ chunks[1].time =
               IF int(fields[1]) > 0
               THEN unpadded(fields[1]) \o <<":">> \o fields[2] \o <<":">> \o fields[3]
               ELSE unpadded(fields[2]) \o <<":">> \o fields[3]
          /\ youtube_time_to_seconds(chunks[1].time) * 1000 = srt_time_to_seconds(t)

\* 01:05:09,000 has gone through both conversions
C12_Witness ==
    /\ pc = "chunked"
    /\ Len(chunks) = 1
    /\ srt_segments[1].start_time =
           <<"0", "1", ":", "0", "5", ":", "0", "9", ",", "0", "0", "0">>
    /\ chunks[1].time = <<"1", ":", "0", "5", ":", "0", "9">>

\* the chunk_ids of the segments, one after the other
RECURSIVE concat_chunk_ids(_)
concat_chunk_ids(segs) ==
    IF segs = <<>> THEN <<>>
    ELSE Head(segs).chunk_ids \o concat_chunk_ids(Tail(segs))

\* C13: create_segments partitions the chunk list: the chunk_ids of the
\* segments, concatenated in segment order, are exactly 1..n, and the
\* chunk_ids of each segment are contiguous, for every positive
\* chunks_per_segment.
C13_SegmentsPartitionChunks ==
    pc = "segmented"
    => /\ concat_chunk_ids(segments) = [i \in 1..Len(chunks) |-> i]
       /\ \A s \in 1..Len(segments) :
            \A j \in 1..(Len(segments[s].chunk_ids) - 1) :
                segments[s].chunk_ids[j + 1] = segments[s].chunk_ids[j] + 1

\* five chunks grouped by two: two full segments and a shorter last one
C13_Witness ==
    /\ pc = "segmented"
    /\ Len(chunks) = 5
    /\ chunks_per_segment = 2
    /\ Len(segments) = 3
    /\ segments[3].chunk_ids = <<5>>

\* C14: every chunk that chunk_from_srt_segments returns, other than the last
\* one, has a non-empty text, also when spans carry an empty or a
\* whitespace-only text.
C14_NonLastChunksNonEmpty ==
    pc = "chunked" => \A i \in 1..(Len(chunks) - 1) : chunks[i].text # <<>>

digits_only(field) == field # <<>> /\ \A i \in 1..Len(field) : field[i] \in DigitSet

\* hh:mm:ss,mmm
srt_form(srt_time) ==
    LET halves == split(srt_time, ",")
    IN IF Len(halves) # 2 THEN FALSE
       ELSE LET fields == split(halves[1], ":")
            IN /\ Len(fields) = 3
               /\ \A i \in 1..Len(fields) : digits_only(fields[i]) /\ Len(fields[i]) >= 2
               /\ digits_only(halves[2])
               /\ Len(halves[2]) = 3

\* two or three integer fields separated by colons
display_form(time_str) ==
    LET parts == split(time_str, ":")
    IN /\ Len(parts) \in {2, 3}
       /\ \A i \in 1..Len(parts) : digits_only(parts[i])

\* C15: a malformed timestamp is a hard failure: chunk_from_srt_segments does
\* not return when the start_time of a span is not of the form hh:mm:ss,mmm,
\* and map_chapters does not return when the time of the index item of a
\* surviving candidate is anything but two or three integer fields separated
\* by colons (a single field, four fields).
C15_MalformedTimeFails ==
    /\ pc = "chunked"
       => \A i \in 1..Len(srt_segments) : srt_form(srt_segments[i].start_time)
    /\ pc = "done"
       => \A i \in 1..Len(survivors) : display_form(survivors[i].timestamp)

\* C16: no operation changes what it was handed: chunk_from_srt_segments
\* leaves the span list and its spans as they were, create_segments the chunk
\* list and its chunks, map_chapters the candidate list, its records and the
\* indexed items.
C16_InputsNotMutated ==
    [][/\ srt_segments' = srt_segments
       /\ target_duration' = target_duration
       /\ items' = items
       /\ item_map' = item_map
       /\ ai_chapters' = ai_chapters
       /\ pc' = "segmented" => chunks' = chunks]_vars

\* map_chapters has returned chapters with a synthesized first chapter and a
\* stripped title, and the candidate still holds the title as it was given
C16_Witness ==
    /\ pc = "done"
    /\ result # <<>>
    /\ result[1].title = IntroTitle
    /\ \E i \in 1..Len(ai_chapters), j \in 1..Len(result) :
          /\ ai_chapters[i].title = <<" ", "C", " ">>
          /\ result[j].title = <<"C">>

is_prefix(p, text) == Len(p) <= Len(text) /\ SubSeq(text, 1, Len(p)) = p

\* a non-empty text without a sentence boundary inside and without white
\* space around it
single_sentence(text) == split_sentences(text) = <<text>>

\* the span of this iteration makes the elapsed time reach the target
Triggers ==
    /\ InLoop
    /\ ~srt_time_raises(segment.start_time)
    /\ elapsed >= target_duration * 1000

\* C17: when a span makes the elapsed time reach the target and the buffered
\* text splits into k > 1 sentences, the chunk that is closed has exactly the
\* first k - 1 sentences, joined in order, as its text, and the buffer of the
\* next chunk is the k-th sentence alone; a buffer that starts with a single
\* sentence keeps it in front while the following spans' texts are appended,
\* and the chunk emitted from it begins with that sentence.
C17_CarryForward ==
    [][/\ Triggers /\ Len(sentences) > 1
          => /\ Len(chunks') = Len(chunks) + 1
             /\ chunks'[Len(chunks')].text =
                    join(SubSeq(sentences, 1, Len(sentences) - 1), <<" ">>)
             /\ current_chunk_text' = <<sentences[Len(sentences)]>>
             /\ single_sentence(sentences[Len(sentences)])
       /\ pc = "chunk" /\ current_chunk_text # <<>>
             /\ single_sentence(current_chunk_text[1])
          => IF Len(chunks') = Len(chunks) + 1
             THEN is_prefix(current_chunk_text[1], chunks'[Len(chunks')].text)
             ELSE pc' = "chunk"
                  => current_chunk_text' =
                         Append(current_chunk_text, strip(segment.text))]_vars

\* "Hi." and "So. Ok" were buffered when the second span reached the target:
\* "Hi. So." was closed, "Ok" carried forward, and the next chunk is "Ok Yes"
C17_Witness ==
    /\ pc = "chunked"
    /\ Len(chunks) = 2
    /\ chunks[1].text = <<"H", "i", ".", " ", "S", "o", ".">>
    /\ chunks[2].text = <<"O", "k", " ", "Y", "e", "s">>

\* C18: when a span makes the elapsed time reach the target and the buffered
\* text is a single sentence, the chunk that is closed has the whole buffered
\* text, the text of the triggering span included, and the next chunk starts
\* with an empty buffer.
C18_NoBoundaryFallback ==
    [][Triggers /\ Len(sentences) = 1
       => /\ Len(chunks') = Len(chunks) + 1
          /\ chunks'[Len(chunks')].text =
                 join(Append(current_chunk_text, strip(segment.text)), <<" ">>)
          /\ current_chunk_text' = <<>>]_vars

\* "we go" was buffered when "Yes" reached the target: "we go Yes" was closed
\* and the next chunk holds the text of the next span only
C18_Witness ==
    /\ pc = "chunked"
    /\ Len(chunks) = 2
    /\ chunks[1].text = <<"w", "e", " ", "g", "o", " ", "Y", "e", "s">>
    /\ chunks[2].text = <<"e", "n", "d", ".">>

\* the starts, in milliseconds, of the spans from the i-th on that close a
\* chunk, when the chunk being filled began at cur
RECURSIVE closing_starts(_, _, _, _)
closing_starts(spans, i, cur, target) ==
    IF i > Len(spans) THEN <<>>
    ELSE LET st == srt_time_to_seconds(spans[i].start_time)
         IN IF st - cur >= target * 1000
            THEN <<st>> \o closing_starts(spans, i + 1, st, target)
            ELSE closing_starts(spans, i + 1, cur, target)

\* where the chunks begin: at the first span, then at each span that closes a
\* chunk
chunk_begins ==
    LET first == srt_time_to_seconds(srt_segments[1].start_time)
    IN <<first>> \o closing_starts(srt_segments, 2, first, target_duration)

\* C19: the time of every returned chunk is the display form of its own
\* start_seconds, and its start_seconds is the start of the span at which the
\* chunk began, the first span or the span that closed the previous chunk,
\* never the start of the span that closed the chunk itself.
C19_ChunkTimeIsItsStart ==
    pc = "chunked" /\ srt_segments # <<>>
    => /\ Len(chunks) <= Len(chunk_begins)
       /\ \A j \in 1..Len(chunks) :
            /\ chunks[j].time = seconds_to_youtube_time(chunks[j].start_seconds)
            /\ chunks[j].start_seconds = chunk_begins[j]
            /\ j < Len(chunk_begins) => chunks[j].start_seconds # chunk_begins[j + 1]

\* the span at 0:40 closes the chunk begun at 0:05 and the span at 1:00:10
\* closes the chunk begun at 0:40
C19_Witness ==
    /\ pc = "chunked"
    /\ Len(srt_segments) = 3
    /\ srt_time_to_seconds(srt_segments[3].start_time) = 3610000
    /\ Len(chunks) = 2
    /\ chunks[1].start_seconds = 5500
    /\ chunks[2].start_seconds = 40500
    /\ chunks[2].time = <<"0", ":", "4", "0">>

\* length of the run of non-whitespace characters at the head of text
RECURSIVE word_len(_)
word_len(text) ==
    IF text = <<>> THEN 0
    ELSE IF Head(text) \in Whitespace THEN 0
    ELSE 1 + word_len(Tail(text))

\* the words of a text, as text.split() gives them
RECURSIVE words(_)
words(text) ==
    IF text = <<>> THEN <<>>
    ELSE IF Head(text) \in Whitespace THEN words(Tail(text))
    ELSE <<SubSeq(text, 1, word_len(text))>>
             \o words(SubSeq(text, word_len(text) + 1, Len(text)))

\* the words of the texts of a list, one text after the other
RECURSIVE words_of_all(_)
words_of_all(texts) ==
    IF texts = <<>> THEN <<>>
    ELSE words(Head(texts)) \o words_of_all(Tail(texts))

span_texts(n) == [i \in 1..n |-> srt_segments[i].text]

chunk_texts == [j \in 1..Len(chunks) |-> chunks[j].text]

\* C20: chunking loses and duplicates no text: the words of the returned
\* chunks' texts, in order, are the words of the spans' texts, in order; while
\* the spans are consumed, the words of the chunks closed so far followed by
\* those of the buffer are the words of the spans consumed so far, so what is
\* buffered after the last span goes out as a final chunk.
C20_NoTextLostOrDuplicated ==
    /\ pc = "chunked"
       => words_of_all(chunk_texts) = words_of_all(span_texts(Len(srt_segments)))
    /\ pc = "chunk"
       => words_of_all(chunk_texts) \o words_of_all(current_chunk_text)
              = words_of_all(span_texts(seg_idx))

\* four spans, one of them without text, went into at least two chunks, the
\* last of them flushed from the buffer after the last span
C20_Witness ==
    /\ pc = "chunked"
    /\ Len(srt_segments) = 4
    /\ \E i \in 1..4 : strip(srt_segments[i].text) = <<>>
    /\ Len(chunks) >= 2
    /\ current_chunk_text # <<>>
    /\ Len(words_of_all(chunk_texts)) >= 5

\* C21: for n chunks and a positive chunks_per_segment k, create_segments
\* returns ceil(n / k) segments with ids 1, 2, ... in order; every segment but
\* the last has exactly k chunk ids and the last has 1 to k; the time and the
\* start_seconds of a segment are those of its first chunk, and its topic is
\* the empty string.
C21_SegmentsShape ==
    pc = "segmented"
    => LET n == Len(chunks)
           k == chunks_per_segment
       IN /\ Len(segments) = (n + k - 1) \div k
          /\ \A s \in 1..Len(segments) :
               /\ segments[s].id = s
               /\ Len(segments[s].chunk_ids) \in 1..k
               /\ s < Len(segments) => Len(segments[s].chunk_ids) = k
               /\ segments[s].time = chunks[(s - 1) * k + 1].time
               /\ segments[s].start_seconds = chunks[(s - 1) * k + 1].start_seconds
               /\ segments[s].topic = <<>>

\* six chunks half an hour apart grouped by four: the second segment has two
\* chunk ids and starts with the fifth chunk, at 2:00:00
C21_Witness ==
    /\ pc = "segmented"
    /\ Len(chunks) = 6
    /\ chunks_per_segment = 4
    /\ Len(segments) = 2
    /\ segments[2].chunk_ids = <<5, 6>>
    /\ segments[2].time = <<"2", ":", "0", "0", ":", "0", "0">>

\* the whole seconds a display time stands for
displayed_seconds(seconds) == youtube_time_to_seconds(seconds_to_youtube_time(seconds))

\* C22: _seconds_to_youtube_time truncates and never rounds: for a number of
\* seconds s >= 0 (in whole milliseconds) the display string parses back to
\* floor(s), and no larger number of seconds is displayed as fewer seconds.
C22_DisplayTruncates ==
    pc = "chunked" /\ Len(srt_segments) = 1 /\ Len(chunks) = 1
    => LET s == srt_time_to_seconds(srt_segments[1].start_time)
       IN /\ chunks[1].start_seconds = s
          /\ youtube_time_to_seconds(chunks[1].time) = s \div 1000
          /\ \A t2 \in FractionTimes :
                s <= srt_time_to_seconds(t2)
                => youtube_time_to_seconds(chunks[1].time)
                       <= displayed_seconds(srt_time_to_seconds(t2))

\* 59.999 seconds are displayed as 0:59
C22_Witness ==
    /\ pc = "chunked"
    /\ Len(chunks) = 1
    /\ chunks[1].start_seconds = 59999
    /\ chunks[1].time = <<"0", ":", "5", "9">>

\* C23: after the sort step of map_chapters the provisional chapters are the
\* surviving candidates, none merged or removed, in non-decreasing order of
\* the seconds parsed from their timestamps; chapters of equal time are in
\* the order they had in the candidate list; the sequence of each chapter is
\* its 0-based rank.
C23_SortedStableRenumbered ==
    pc = "sorted"
    => /\ Len(mapped_chapters) = Len(survivors)
       /\ \A i, j \in 1..Len(mapped_chapters) :
             i < j => seconds_of(mapped_chapters[i]) <= seconds_of(mapped_chapters[j])
       /\ \A i \in 1..Len(mapped_chapters) : mapped_chapters[i].sequence = i - 1
       /\ \E p \in Perms(Len(survivors)) :
             /\ \A i \in 1..Len(survivors) :
                   /\ mapped_chapters[i].timestamp = survivors[p[i]].timestamp
                   /\ mapped_chapters[i].title = survivors[p[i]].title
             /\ \A i, j \in 1..Len(survivors) :
                   i < j /\ seconds_of(survivors[p[i]]) = seconds_of(survivors[p[j]])
                   => p[i] < p[j]

\* C at 1:00 was handed over before E and B, both at 0:30: the sort gives
\* E, B, C
C23_Witness ==
    /\ pc = "sorted"
    /\ Len(mapped_chapters) = 3
    /\ mapped_chapters[1].title = <<"E">>
    /\ mapped_chapters[2].title = <<"B">>
    /\ mapped_chapters[3].title = <<"C">>
    /\ mapped_chapters[1].timestamp = mapped_chapters[2].timestamp
    /\ ai_chapters[1].title = <<" ", "C", " ">>

\* the list the sort step leaves, when it does not raise
sorted_survivors == sort_and_renumber(survivors)

\* C24: zero-anchor step: when the sorted list is not empty and the timestamp
\* of its first chapter is not the zero offset 0:00, exactly one chapter with
\* timestamp 0:00 and title Introduction is put in front and the sequences
\* are renumbered 0..n; when the first chapter is at 0:00 nothing is inserted.
C24_ZeroAnchor ==
    pc = "anchored"
    => IF sorted_survivors[1].timestamp # ZeroTimestamp
       THEN /\ Len(mapped_chapters) = Len(sorted_survivors) + 1
            /\ mapped_chapters[1].timestamp = ZeroTimestamp
            /\ mapped_chapters[1].title = IntroTitle
            /\ \A i \in 1..Len(sorted_survivors) :
                  /\ mapped_chapters[i + 1].timestamp = sorted_survivors[i].timestamp
                  /\ mapped_chapters[i + 1].title = sorted_survivors[i].title
            /\ \A i \in 1..Len(mapped_chapters) : mapped_chapters[i].sequence = i - 1
       ELSE mapped_chapters = sorted_survivors

\* two survivors at 0:30 and 1:00 have got the chapter 0:00 Introduction in
\* front of them
C24_Witness ==
    /\ pc = "anchored"
    /\ Len(sorted_survivors) = 2
    /\ Len(mapped_chapters) = 3
    /\ mapped_chapters[1].title = IntroTitle
    /\ mapped_chapters[2].timestamp = <<"0", ":", "3", "0">>
    /\ mapped_chapters[3].sequence = 2

\* the positions of the pre-filter list that the minimum-duration rule keeps:
\* the last one, and those at least MinChapterSeconds before their successor
kept_positions(chs) ==
    {i \in 1..Len(chs) :
        IF i = Len(chs) THEN TRUE
        ELSE seconds_of(chs[i + 1]) - seconds_of(chs[i]) >= MinChapterSeconds}

\* C25: minimum-duration step: a chapter of the sorted, zero-anchored list is
\* dropped if and only if it is not the last one and its immediate successor
\* in that list is less than 10 seconds later, whether or not that successor
\* is dropped itself; the chapters kept stay in order and the last chapter is
\* always kept.
C25_MinDurationDropsIff ==
    pc = "filtered"
    => LET kept == kept_positions(mapped_chapters)
       IN /\ Len(valid_chapters) = Cardinality(kept)
          /\ \A i \in kept :
                valid_chapters[Cardinality({j \in kept : j <= i})] = mapped_chapters[i]
          /\ valid_chapters[Len(valid_chapters)] = mapped_chapters[Len(mapped_chapters)]

\* Introduction at 0:00, B and E at 0:30, C at 0:35: B and E, each less than
\* 10 seconds before its successor, are both dropped
C25_Witness ==
    /\ pc = "filtered"
    /\ Len(mapped_chapters) = 4
    /\ mapped_chapters[2].title = <<"B">>
    /\ mapped_chapters[3].title = <<"E">>
    /\ mapped_chapters[4].timestamp = <<"0", ":", "3", "5">>
    /\ Len(valid_chapters) = 2
    /\ valid_chapters[1].title = IntroTitle
    /\ valid_chapters[2].title = <<"C">>

\* C26: re-segmentation: when the chunks that chunk_from_srt_segments returned
\* are fed back as spans, each starting at the chunk's start_seconds and
\* carrying its text, with the same target duration, the call does not fail
\* and returns chunks with ids 1, 2, ... and non-decreasing start_seconds.
C26_ResegmentationCompletes ==
    ~NotFedBack
    => /\ pc # "chunk_raised"
       /\ pc = "chunked"
          => /\ \A j \in 1..Len(chunks) : chunks[j].id = j
             /\ \A j \in 1..(Len(chunks) - 1) :
                   chunks[j].start_seconds <= chunks[j + 1].start_seconds

\* three chunks were fed back and came out again as at least two chunks with
\* other texts
C26_Witness ==
    /\ ~NotFedBack
    /\ pc = "chunked"
    /\ Len(previous_chunks[1]) = 3
    /\ Len(chunks) >= 2
    /\ chunks[1].text # previous_chunks[1][1].text

\* C27: a chunk is closed at a span if and only if the start of the span
\* minus the start of the current chunk is at least target_duration; so, the
\* target being positive, the start_seconds of two consecutive chunks differ
\* by at least target_duration, in whatever order the spans come.
C27_ClosedIffTargetReached ==
    [][/\ InLoop /\ ~srt_time_raises(segment.start_time)
          => (Len(chunks') = Len(chunks) + 1
                <=> start_seconds - chunk_start_seconds >= target_duration * 1000)
       /\ pc' \in ChunkerPcs /\ target_duration' > 0
          => \A j \in 1..(Len(chunks') - 1) :
                chunks'[j + 1].start_seconds - chunks'[j].start_seconds
                    >= target_duration' * 1000]_vars

\* with a target of 10 seconds, the span at 0:10 has closed the chunk begun at
\* 0:00 and the span at 0:40 the chunk begun at 0:10
C27_Witness ==
    /\ pc = "chunked"
    /\ target_duration = 10
    /\ Len(srt_segments) = 3
    /\ Len(chunks) = 2
    /\ chunks[1].start_seconds = 0
    /\ chunks[2].start_seconds = 10000

\* the positions of the surviving candidates that resolve to timestamp ts
resolving_to(ts) == {i \in 1..Len(survivors) : survivors[i].timestamp = ts}

\* at most one chapter of chs has timestamp ts, and it has the title of the
\* last surviving candidate that resolves to ts
only_last_of(chs, ts) ==
    LET last == CHOOSE i \in resolving_to(ts) : \A j \in resolving_to(ts) : j <= i
        at   == {r \in 1..Len(chs) : chs[r].timestamp = ts}
    IN /\ Cardinality(at) <= 1
       /\ \A r \in at : chs[r].title = survivors[last].title

\* C28: of the candidates that resolve to the same timestamp at most one is in
\* the list map_chapters returns, and it is the one that comes last in the
\* candidate list; the earlier ones are gone after the minimum-duration step.
C28_LastOfSameTimestamp ==
    pc \in {"filtered", "done"}
    => \A i \in 1..Len(survivors) :
          Cardinality(resolving_to(survivors[i].timestamp)) > 1
          => /\ only_last_of(valid_chapters, survivors[i].timestamp)
             /\ pc = "done" => only_last_of(result, survivors[i].timestamp)

\* B and E resolve to the same timestamp, B first: the chapter returned at
\* that timestamp is E
C28_Witness ==
    /\ pc = "done"
    /\ Len(survivors) = 3
    /\ survivors[1].title = <<"B">>
    /\ survivors[2].title = <<"E">>
    /\ survivors[1].timestamp = survivors[2].timestamp
    /\ Len(result) = 3
    /\ result[2].title = <<"E">>
    /\ result[2].timestamp = survivors[2].timestamp


\* the candidates reference pairwise different ids of the index and have
\* titles that are not empty
distinct_valid_candidates ==
    /\ \A i \in 1..Len(ai_chapters) :
          /\ ai_chapters[i] \in [chunk_id : Int, segment_id : Int, title : Seq(STRING)]
          /\ (IF ai_chapters[i].chunk_id # 0 THEN ai_chapters[i].chunk_id
              ELSE ai_chapters[i].segment_id) \in DOMAIN item_map
          /\ strip(ai_chapters[i].title) # <<>>
    /\ \A i, j \in 1..Len(ai_chapters) :
          (IF ai_chapters[i].chunk_id # 0 THEN ai_chapters[i].chunk_id
           ELSE ai_chapters[i].segment_id)
          = (IF ai_chapters[j].chunk_id # 0 THEN ai_chapters[j].chunk_id
             ELSE ai_chapters[j].segment_id)
          => i = j

\* the id of the index item whose time is ts
id_at(ts) == CHOOSE id \in DOMAIN item_map : item_map[id].time = ts

\* the chapters of chs that come from candidates: all of them, or all but a
\* synthesized first one
candidate_derived(chs) ==
    IF Len(chs) > 0 /\ Len(sorted_survivors) > 0
       /\ sorted_survivors[1].timestamp # ZeroTimestamp
       /\ chs[1].timestamp = ZeroTimestamp
    THEN Tail(chs) ELSE chs

(* C29: when the index is made of the chunks of chunk_from_srt_segments with *)
(* a target of at least 10 seconds, or of segments built from them, and the  *)
(* candidates reference pairwise different valid ids with non-empty titles,  *)
(* the minimum-duration step keeps every chapter that comes from a candidate *)
(* (only a synthesized zero chapter can go), and the chapters of a non-empty *)
(* output are in increasing order of the referenced id.                      *)
C29_EndToEndKeepsCandidates ==
    (target_duration >= MinChapterSeconds /\ distinct_valid_candidates)
    => /\ pc \in {"filtered", "done"}
          => [i \in 1..Len(candidate_derived(valid_chapters)) |->
                 <<candidate_derived(valid_chapters)[i].timestamp,
                   candidate_derived(valid_chapters)[i].title>>]
             = [i \in 1..Len(sorted_survivors) |->
                 <<sorted_survivors[i].timestamp, sorted_survivors[i].title>>]
       /\ (pc = "done" /\ result # <<>>)
          => /\ Len(candidate_derived(result)) = Len(ai_chapters)
             /\ \A i, j \in 1..Len(candidate_derived(result)) :
                   i < j => id_at(candidate_derived(result)[i].timestamp)
                            < id_at(candidate_derived(result)[j].timestamp)

C29_Witness ==
    /\ pc = "done"
    /\ target_duration >= MinChapterSeconds
    /\ distinct_valid_candidates
    /\ Len(ai_chapters) = 3
    /\ ai_chapters[1].chunk_id > ai_chapters[2].chunk_id
    /\ ai_chapters[2].chunk_id > 1
    /\ Len(mapped_chapters) = 4
    /\ Len(result) = 3
    /\ result[1].title # IntroTitle


\* the id a candidate references: chunk_id, or segment_id when that is falsy
referenced_id(chapter) ==
    IF chapter.chunk_id # 0 THEN chapter.chunk_id ELSE chapter.segment_id

\* the positions of the candidates that the mapping loop keeps
surviving ==
    {i \in 1..Len(ai_chapters) :
        /\ referenced_id(ai_chapters[i]) # 0
        /\ referenced_id(ai_chapters[i]) \in DOMAIN item_map
        /\ strip(ai_chapters[i].title) # <<>>}

\* chapter ch is the synthesized one
is_synthesized(ch) == ch.timestamp = ZeroTimestamp /\ ch.title = IntroTitle

\* chapter ch has the time of the item that one candidate references and the
\* trimmed title of that same candidate
comes_from_candidate(ch) ==
    \E i \in surviving :
        /\ ch.timestamp = item_map[referenced_id(ai_chapters[i])].time
        /\ ch.title = strip(ai_chapters[i].title)

(* C30: every chapter that map_chapters returns is the synthesized chapter   *)
(* (0:00, Introduction) or has the time of the index item that some          *)
(* candidate references together with the trimmed title of that same         *)
(* candidate; no title goes with the timestamp of another candidate, and the *)
(* output has at most one chapter more than there are surviving candidates.  *)
C30_Provenance ==
    pc = "done"
    => /\ \A r \in 1..Len(result) :
             is_synthesized(result[r]) \/ comes_from_candidate(result[r])
       /\ Len(result) <= Cardinality(surviving) + 1

C30_Witness ==
    /\ pc = "done"
    /\ Len(result) = Cardinality(surviving) + 1
    /\ is_synthesized(result[1])
    /\ ~comes_from_candidate(result[1])
    /\ \E r \in 1..Len(result), i \in surviving :
          /\ ai_chapters[i].title # strip(ai_chapters[i].title)
          /\ result[r].title = strip(ai_chapters[i].title)
          /\ result[r].timestamp = item_map[referenced_id(ai_chapters[i])].time

====
